---- MODULE Spec2Model ----
(***************************************************************************)
(* Model of src/services/simplify-node-response.ts: the conversion of a    *)
(* Figma REST response into a SimplifiedDesign (parseFigmaFileResponse,    *)
(* parseFigmaResponse, parseNode, parsePaint, convertColor).               *)
(*                                                                         *)
(* JavaScript values are tagged records: [t |-> "undefined"],              *)
(* [t |-> "number", n, d] (the rational n/d in lowest terms),              *)
(* [t |-> "string", s] (a literal), [t |-> "string", chars] (a string the  *)
(* program builds, as its sequence of characters), [t |-> "array", a] and  *)
(* [t |-> "object", o].  A call either returns or throws; its outcome is a *)
(* completion record [ok |-> TRUE, val] or [ok |-> FALSE, err].            *)
(***************************************************************************)
EXTENDS Integers, Sequences, FiniteSets, TLC

VARIABLES input, output, pc

vars == <<input, output, pc>>

(* ------------------------------ bounds -------------------------------- *)

\* color channels and opacities are the multiples of 1/ChanDen in [0,1]
ChanDen == 4

\* longest gradientStops list of a modelled gradient paint
MaxStops == 2

\* largest number of raw nodes below the document of a modelled response
MaxNodes == 3

\* digits after the decimal point that the number formatter prints
MaxFracDigits == 6

(* --------------------------- JavaScript values ------------------------ *)

Undefined == [t |-> "undefined"]

Str(s) == [t |-> "string", s |-> s]

Chars(cs) == [t |-> "string", chars |-> cs]

Arr(a) == [t |-> "array", a |-> a]

Obj(o) == [t |-> "object", o |-> o]

Abs(x) == IF x < 0 THEN -x ELSE x

RECURSIVE GCD(_, _)
GCD(a, b) == IF b = 0 THEN a ELSE GCD(b, a % b)

\* the number n/d, d # 0, in lowest terms with a positive denominator
Num(n, d) ==
  LET g == GCD(Abs(n), Abs(d))
      s == IF d < 0 THEN -1 ELSE 1
  IN  [t |-> "number", n |-> s * (n \div g), d |-> s * (d \div g)]

Whole(k) == Num(k, 1)

Mul(x, y) == Num(x.n * y.n, x.d * y.d)

Div(x, y) == Num(x.n * y.d, x.d * y.n)

\* Math.round: the nearest integer, a tie going up
MathRound(x) == (2 * x.n + x.d) \div (2 * x.d)

typeof(v) == v.t

\* isArray accepting whatever is defined
isArrayAny(v) == v.t # "undefined"

\* Array.isArray
isArray(v) == v.t = "array"

\* obj[key] of an object; a key the object lacks reads as undefined
Prop(obj, key) ==
  IF obj.t = "object" /\ key \in DOMAIN obj.o THEN obj.o[key] ELSE Undefined

\* ToBoolean
Truthy(v) ==
  CASE v.t = "undefined" -> FALSE
    [] v.t = "number" -> v.n # 0
    [] v.t = "string" -> IF "s" \in DOMAIN v THEN v.s # "" ELSE v.chars # <<>>
    [] OTHER -> TRUE

\* an object under construction: a record with the fields of base and, where opt[k] is defined, the field k
WithOptional(base, opt) ==
  LET keys == DOMAIN base \cup {k \in DOMAIN opt : opt[k].t # "undefined"}
  IN  [k \in keys |-> IF k \in DOMAIN base THEN base[k] ELSE opt[k]]

Return(v) == [ok |-> TRUE, val |-> v]

Throw(e) == [ok |-> FALSE, err |-> e]

(* ------------------------------ convertColor -------------------------- *)

\* x << k; the operands here are a rounded channel in 0..255 and a shift of
\* at most 24, so the 32-bit result never wraps
ShiftLeft(x, k) == x * (2 ^ k)

LowerHexDigits == <<"0", "1", "2", "3", "4", "5", "6", "7", "8", "9",
                    "a", "b", "c", "d", "e", "f">>

\* Number.prototype.toString(16) of a positive integer
RECURSIVE ToString16(_)
ToString16(k) ==
  IF k < 16 THEN <<LowerHexDigits[k + 1]>>
  ELSE Append(ToString16(k \div 16), LowerHexDigits[(k % 16) + 1])

\* String.prototype.slice(1)
Slice1(cs) == SubSeq(cs, 2, Len(cs))

UpperChar(c) ==
  CASE c = "a" -> "A" [] c = "b" -> "B" [] c = "c" -> "C"
    [] c = "d" -> "D" [] c = "e" -> "E" [] c = "f" -> "F"
    [] OTHER -> c

\* String.prototype.toUpperCase
ToUpperCase(cs) == [i \in 1..Len(cs) |-> UpperChar(cs[i])]

\* HexOf without the final toUpperCase
HexOfLowerCase(r, g, b) ==
  <<"#">> \o Slice1(ToString16(ShiftLeft(1, 24) + ShiftLeft(r, 16) + ShiftLeft(g, 8) + b))

\* the hex of convertColor, from the three rounded channels
HexOf(r, g, b) ==
  <<"#">> \o ToUpperCase(Slice1(ToString16(ShiftLeft(1, 24) + ShiftLeft(r, 16) + ShiftLeft(g, 8) + b)))

\* the default of convertColor's second parameter
DefaultOpacity(opacity) == IF opacity.t = "undefined" THEN Whole(1) ELSE opacity

\* AlphaOf with the opacity argument left out of the product
AlphaOfColorOnly(a, opacity) == Num(MathRound(Mul(a, Whole(100))), 100)

\* the combined opacity of convertColor
AlphaOf(a, opacity) == Num(MathRound(Mul(Mul(opacity, a), Whole(100))), 100)

\* convertColor(color, opacity = 1); reading a channel of an undefined color throws
convertColor(color, opacity) ==
  IF color.t = "undefined" THEN Throw("TypeError")
  ELSE
    LET op == DefaultOpacity(opacity)
        r == MathRound(Mul(Prop(color, "r"), Whole(255)))
        g == MathRound(Mul(Prop(color, "g"), Whole(255)))
        b == MathRound(Mul(Prop(color, "b"), Whole(255)))
        a == AlphaOf(Prop(color, "a"), op)
    IN  Return(Obj([hex |-> Chars(HexOf(r, g, b)), opacity |-> a]))

(* ------------------------------- parsePaint --------------------------- *)

GradientTypes == {"GRADIENT_LINEAR", "GRADIENT_RADIAL", "GRADIENT_ANGULAR", "GRADIENT_DIAMOND"}

\* the callback of raw.gradientStops.map
StopOf(stop) ==
  LET c == convertColor(Prop(stop, "color"), Undefined)
  IN  IF c.ok
      THEN Return(Obj([position |-> Prop(stop, "position"), color |-> c.val]))
      ELSE c

\* Array.prototype.map with a callback that may throw: the first throw, in
\* index order, ends the map
RECURSIVE FirstFailure(_, _)
FirstFailure(rs, i) ==
  IF i > Len(rs) THEN 0
  ELSE IF ~rs[i].ok THEN i
  ELSE FirstFailure(rs, i + 1)

Collect(rs) ==
  LET k == FirstFailure(rs, 1)
  IN  IF k = 0 THEN Return(Arr([i \in 1..Len(rs) |-> rs[i].val])) ELSE rs[k]

\* MapStops building the list back to front
MapStopsReversed(stops) ==
  IF stops.t # "array" THEN Throw("TypeError")
  ELSE Collect([i \in 1..Len(stops.a) |-> StopOf(stops.a[Len(stops.a) + 1 - i])])

MapStops(stops) ==
  IF stops.t # "array" THEN Throw("TypeError")
  ELSE Collect([i \in 1..Len(stops.a) |-> StopOf(stops.a[i])])

\* parsePaint passing a paint of an unknown type through with its type alone
parsePaintLenient(raw) ==
  LET type == Prop(raw, "type")
  IN  IF type = Str("IMAGE")
      THEN Return(Obj([type |-> Str("IMAGE"),
                       imageRef |-> Prop(raw, "imageRef"),
                       scaleMode |-> Prop(raw, "scaleMode")]))
      ELSE IF type = Str("SOLID")
      THEN LET c == convertColor(Prop(raw, "color"), Prop(raw, "opacity"))
           IN  IF c.ok
               THEN Return(Obj([type |-> Str("SOLID"),
                                hex |-> Prop(c.val, "hex"),
                                opacity |-> Prop(c.val, "opacity")]))
               ELSE c
      ELSE IF type.t = "string" /\ type.s \in GradientTypes
      THEN LET stops == MapStops(Prop(raw, "gradientStops"))
           IN  IF stops.ok
               THEN Return(Obj([type |-> type,
                                gradientHandlePositions |-> Prop(raw, "gradientHandlePositions"),
                                gradientStops |-> stops.val]))
               ELSE stops
      ELSE Return(Obj([type |-> type]))

parsePaint(raw) ==
  LET type == Prop(raw, "type")
  IN  IF type = Str("IMAGE")
      THEN Return(Obj([type |-> Str("IMAGE"),
                       imageRef |-> Prop(raw, "imageRef"),
                       scaleMode |-> Prop(raw, "scaleMode")]))
      ELSE IF type = Str("SOLID")
      THEN LET c == convertColor(Prop(raw, "color"), Prop(raw, "opacity"))
           IN  IF c.ok
               THEN Return(Obj([type |-> Str("SOLID"),
                                hex |-> Prop(c.val, "hex"),
                                opacity |-> Prop(c.val, "opacity")]))
               ELSE c
      ELSE IF type.t = "string" /\ type.s \in GradientTypes
      THEN LET stops == MapStops(Prop(raw, "gradientStops"))
           IN  IF stops.ok
               THEN Return(Obj([type |-> type,
                                gradientHandlePositions |-> Prop(raw, "gradientHandlePositions"),
                                gradientStops |-> stops.val]))
               ELSE stops
      ELSE Throw("Error: Unknown paint type")

(* --------------------- helpers imported by the file ------------------- *)

\* hasValue(key, obj): the field exists; with a type guard as third
\* argument the field must also pass the guard, which the callers below
\* write as a second conjunct
hasValue(key, obj) == Prop(obj, key).t # "undefined"

isTruthy(val) == Truthy(val)

\* all four sides present and numeric
isStrokeWeights(val) ==
  /\ val.t = "object"
  /\ \A side \in {"top", "right", "bottom", "left"} : Prop(val, side).t = "number"

\* the layout collaborator, an unknown pure function of (node, parent): its
\* result records the two arguments it was called with
buildSimplifiedLayout(n, parent) == Obj([layoutOf |-> n, within |-> parent])

(* ------------------------------- parseNode ---------------------------- *)

DecDigits == <<"0", "1", "2", "3", "4", "5", "6", "7", "8", "9">>

\* the decimal digits of a natural number
RECURSIVE NatToString(_)
NatToString(k) ==
  IF k < 10 THEN <<DecDigits[k + 1]>>
  ELSE Append(NatToString(k \div 10), DecDigits[(k % 10) + 1])

\* the digits of the fraction r/d, 0 <= r < d, at most fuel of them
RECURSIVE FracToString(_, _, _)
FracToString(r, d, fuel) ==
  IF r = 0 \/ fuel = 0 THEN <<>>
  ELSE <<DecDigits[((10 * r) \div d) + 1]>> \o FracToString((10 * r) % d, d, fuel - 1)

\* a number inside a template literal: sign, integer part and, when the
\* number is no integer, a point and the digits of the fraction
NumToString(x) ==
  LET m == Abs(x.n)
      frac == FracToString(m % x.d, x.d, MaxFracDigits)
  IN  (IF x.n < 0 THEN <<"-">> ELSE <<>>)
        \o NatToString(m \div x.d)
        \o (IF frac = <<>> THEN <<>> ELSE <<".">> \o frac)

\* LineHeightOf falling back to the pixel value when there is no font size
LineHeightOfPx(style) ==
  IF Truthy(Prop(style, "lineHeightPx")) /\ Truthy(Prop(style, "fontSize"))
  THEN Chars(NumToString(Div(Prop(style, "lineHeightPx"), Prop(style, "fontSize"))) \o <<"e", "m">>)
  ELSE IF Truthy(Prop(style, "lineHeightPx"))
  THEN Chars(NumToString(Prop(style, "lineHeightPx")) \o <<"p", "x">>)
  ELSE Undefined

\* `${lineHeightPx / fontSize}em`, or undefined
LineHeightOf(style) ==
  IF Truthy(Prop(style, "lineHeightPx")) /\ Truthy(Prop(style, "fontSize"))
  THEN Chars(NumToString(Div(Prop(style, "lineHeightPx"), Prop(style, "fontSize"))) \o <<"e", "m">>)
  ELSE Undefined

\* LetterSpacingOf testing that letterSpacing is a number, not that it is truthy
LetterSpacingOfAnyNumber(style) ==
  IF Prop(style, "letterSpacing").t = "number" /\ Truthy(Prop(style, "fontSize"))
  THEN Chars(NumToString(Mul(Div(Prop(style, "letterSpacing"), Prop(style, "fontSize")), Whole(100)))
             \o <<"%">>)
  ELSE Undefined

\* `${(letterSpacing / fontSize) * 100}%`, or undefined
LetterSpacingOf(style) ==
  IF /\ Truthy(Prop(style, "letterSpacing"))
     /\ Prop(style, "letterSpacing") # Whole(0)
     /\ Truthy(Prop(style, "fontSize"))
  THEN Chars(NumToString(Mul(Div(Prop(style, "letterSpacing"), Prop(style, "fontSize")), Whole(100)))
             \o <<"%">>)
  ELSE Undefined

\* the object literal assigned to simplified.textStyle
TextStyleOf(style) ==
  Obj([fontFamily |-> Prop(style, "fontFamily"),
       fontWeight |-> Prop(style, "fontWeight"),
       fontSize |-> Prop(style, "fontSize"),
       lineHeight |-> LineHeightOf(style),
       letterSpacing |-> LetterSpacingOf(style),
       textCase |-> Prop(style, "textCase"),
       textAlignHorizontal |-> Prop(style, "textAlignHorizontal"),
       textAlignVertical |-> Prop(style, "textAlignVertical")])

\* n.fills.map(parsePaint), n.strokes.map(parsePaint); what is no array has
\* no map to call
MapPaints(paints) ==
  IF paints.t # "array" THEN Throw("TypeError")
  ELSE Collect([i \in 1..Len(paints.a) |-> parsePaint(paints.a[i])])

\* HasStrokes without the .length: an empty list counts
HasStrokesList(strokes) == strokes.t = "array"

\* simplified.strokes?.length is truthy
HasStrokes(strokes) == strokes.t = "array" /\ Len(strokes.a) # 0

\* NonEmptyLength without the length test
NonEmptyLengthAny(v) == TRUE

\* n.children.length > 0
NonEmptyLength(v) ==
  \/ v.t = "array" /\ Len(v.a) > 0
  \/ v.t = "string" /\ "s" \in DOMAIN v /\ v.s # ""

\* ParentOfChildren handing the node's own parent down
ParentOfChildrenOuter(n, parent) == parent

\* the parent handed to the transformation of the children of n
ParentOfChildren(n, parent) == n

\* the attributes parseNode sets before it turns to the children, given the
\* normalized fills and strokes (undefined where the guard fails)
Attributes(n, parent, fills, strokes) ==
  WithOptional(
    [id |-> Prop(n, "id"), name |-> Prop(n, "name"), type |-> Prop(n, "type"),
     layout |-> buildSimplifiedLayout(n, parent)],
    [text |-> IF hasValue("characters", n) /\ isTruthy(Prop(n, "characters")) THEN Prop(n, "characters") ELSE Undefined,
     textStyle |-> IF hasValue("style", n) THEN TextStyleOf(Prop(n, "style")) ELSE Undefined,
     fills |-> fills,
     strokes |-> strokes,
     strokeWeight |->
       IF hasValue("strokeWeight", n) /\ typeof(Prop(n, "strokeWeight")) = "number" /\ HasStrokes(strokes)
       THEN Prop(n, "strokeWeight") ELSE Undefined,
     strokeDashes |->
       IF hasValue("strokeDashes", n) /\ isArray(Prop(n, "strokeDashes"))
       THEN Prop(n, "strokeDashes") ELSE Undefined,
     individualStrokeWeights |->
       IF hasValue("individualStrokeWeights", n) /\ isStrokeWeights(Prop(n, "individualStrokeWeights"))
       THEN Obj([top |-> Prop(Prop(n, "individualStrokeWeights"), "top"),
                 right |-> Prop(Prop(n, "individualStrokeWeights"), "right"),
                 bottom |-> Prop(Prop(n, "individualStrokeWeights"), "bottom"),
                 left |-> Prop(Prop(n, "individualStrokeWeights"), "left")])
       ELSE Undefined,
     opacity |->
       IF hasValue("opacity", n) /\ typeof(Prop(n, "opacity")) = "number"
       THEN Prop(n, "opacity") ELSE Undefined,
     borderRadius |->
       IF hasValue("cornerRadius", n) /\ typeof(Prop(n, "cornerRadius")) = "number"
       THEN Chars(NumToString(Prop(n, "cornerRadius")) \o <<"p", "x">>) ELSE Undefined])

\* parseNode(n, parent): the statements run in source order, so a throw of
\* the fills comes before one of the strokes, and both before the children
RECURSIVE parseNode(_, _)
parseNode(n, parent) ==
  LET fills == IF hasValue("fills", n) /\ isArray(Prop(n, "fills"))
               THEN MapPaints(Prop(n, "fills")) ELSE Return(Undefined)
      strokes == IF hasValue("strokes", n) /\ isArray(Prop(n, "strokes"))
                 THEN MapPaints(Prop(n, "strokes")) ELSE Return(Undefined)
      kids == Prop(n, "children")
      children ==
        IF hasValue("children", n) /\ NonEmptyLength(kids)
        THEN IF kids.t = "array"
             THEN Collect([i \in 1..Len(kids.a) |-> parseNode(kids.a[i], ParentOfChildren(n, parent))])
             ELSE Throw("TypeError")
        ELSE Return(Undefined)
  IN  IF ~fills.ok THEN fills
      ELSE IF ~strokes.ok THEN strokes
      ELSE IF ~children.ok THEN children
      ELSE Return(Obj(WithOptional(Attributes(n, parent, fills.val, strokes.val),
                                   [children |-> children.val])))

(* ---------------------------- the entry points ------------------------ *)

\* document.children.map((n) => parseNode(n)), Object.values(nodes).map(...)
MapTopLevel(tops) == Collect([i \in 1..Len(tops) |-> parseNode(tops[i], Undefined)])

\* thumbnailUrl || ""
OrEmpty(v) == IF Truthy(v) THEN v ELSE Str("")

parseFigmaFileResponse(data) ==
  LET simplifiedNodes == MapTopLevel(Prop(Prop(data, "document"), "children").a)
  IN  IF simplifiedNodes.ok
      THEN Return(Obj([name |-> Prop(data, "name"),
                       lastModified |-> Prop(data, "lastModified"),
                       thumbnailUrl |-> OrEmpty(Prop(data, "thumbnailUrl")),
                       nodes |-> simplifiedNodes.val]))
      ELSE simplifiedNodes

\* the nodes map is the sequence of its values, in Object.values order
parseFigmaResponse(data) ==
  LET values == Prop(data, "nodes").a
      simplifiedNodes == MapTopLevel([i \in 1..Len(values) |-> Prop(values[i], "document")])
  IN  IF simplifiedNodes.ok
      THEN Return(Obj([name |-> Prop(data, "name"),
                       lastModified |-> Prop(data, "lastModified"),
                       thumbnailUrl |-> Prop(data, "thumbnailUrl"),
                       nodes |-> simplifiedNodes.val]))
      ELSE simplifiedNodes

(* ------------------------------ input sets ---------------------------- *)

Channels == {Num(k, ChanDen) : k \in 0..ChanDen}

\* 1/51 rounds to the one-digit channel 5; 3/4 to 191 (BF); 1/2 to 128 by the tie
RgbChannels == Channels \cup {Num(1, 51)}

Color(r, g, b, a) == Obj([r |-> r, g |-> g, b |-> b, a |-> a])

Colors == {Color(r, g, b, a) : r \in RgbChannels, g \in RgbChannels, b \in RgbChannels, a \in Channels}

OptOpacities == {Undefined} \cup Channels

\* the colors of gradient stops: an opaque red and a half-transparent blue
StopColors == {Color(Whole(1), Whole(0), Whole(0), Whole(1)),
               Color(Whole(0), Whole(0), Whole(1), Num(1, 2))}

StopPositions == {Whole(0), Num(1, 2), Whole(1)}

Stops == {Obj([position |-> p, color |-> c]) : p \in StopPositions, c \in StopColors}

SeqsUpTo(S, k) == UNION {[1..m -> S] : m \in 0..k}

Vec(x, y) == Obj([x |-> x, y |-> y])

Handles == Arr(<<Vec(Whole(0), Num(1, 2)), Vec(Whole(1), Num(1, 2)), Vec(Whole(0), Whole(1))>>)

SolidPaints ==
  {Obj(WithOptional([type |-> Str("SOLID")], [color |-> c, opacity |-> o])) :
     c \in Colors \cup {Undefined}, o \in OptOpacities}

ImagePaints ==
  {Obj(WithOptional([type |-> Str("IMAGE"), scaleMode |-> Str("FILL")], [imageRef |-> r])) :
     r \in {Undefined, Str("img-1")}}

GradientPaints ==
  {Obj(WithOptional([type |-> Str(ty), gradientHandlePositions |-> Handles],
                    [gradientStops |-> st, opacity |-> o])) :
     ty \in GradientTypes,
     st \in {Undefined} \cup {Arr(a) : a \in SeqsUpTo(Stops, MaxStops)},
     o \in {Undefined, Num(1, 2)}}

UnknownPaints ==
  {Obj(WithOptional([type |-> Str(ty)], [color |-> c])) :
     ty \in {"EMOJI", "VIDEO"}, c \in {Undefined, Color(Whole(1), Whole(0), Whole(0), Whole(1))}}

RawPaints == SolidPaints \cup ImagePaints \cup GradientPaints \cup UnknownPaints

Red == Color(Whole(1), Whole(0), Whole(0), Whole(1))

SolidRed == Obj([type |-> Str("SOLID"), color |-> Red])

\* the text node of the end-to-end example: "Hi", fontSize 16, lineHeightPx 24
HiText ==
  Obj([id |-> Str("1:2"), name |-> Str("Label"), type |-> Str("TEXT"),
       characters |-> Str("Hi"),
       style |-> Obj([fontSize |-> Whole(16), lineHeightPx |-> Whole(24)])])

Mixed == Str("mixed")

Sides(t, r, b, l) == Obj(WithOptional(<<>>, [top |-> t, right |-> r, bottom |-> b, left |-> l]))

\* a single raw node from its guarded fields
RawNode(ch, st, fi, sk, sw, sd, isw, op, cr, kids) ==
  Obj(WithOptional(
    [id |-> Str("1:1"), name |-> Str("Box"), type |-> Str("FRAME")],
    [characters |-> ch, style |-> st, fills |-> fi, strokes |-> sk, strokeWeight |-> sw,
     strokeDashes |-> sd, individualStrokeWeights |-> isw, opacity |-> op,
     cornerRadius |-> cr, children |-> kids]))

\* style records: every field absent or present, the numbers also zero
Styles ==
  {Obj(WithOptional(<<>>,
     [fontFamily |-> ff, fontWeight |-> fw, fontSize |-> fs, lineHeightPx |-> lh,
      letterSpacing |-> ls, textCase |-> tc, textAlignHorizontal |-> ah,
      textAlignVertical |-> av])) :
     ff \in {Undefined, Str("Inter")},
     fw \in {Undefined, Whole(400)},
     fs \in {Undefined, Whole(0), Whole(8), Whole(16)},
     lh \in {Undefined, Whole(0), Whole(12), Whole(24)},
     ls \in {Undefined, Whole(0), Whole(2), Whole(-1)},
     tc \in {Undefined, Str("UPPER")},
     ah \in {Undefined, Str("LEFT")},
     av \in {Undefined, Str("TOP")}}

TextNodes ==
  {Obj(WithOptional(
     [id |-> Str("1:2"), name |-> Str("Label"), type |-> Str("TEXT"), characters |-> Str("Hi")],
     [style |-> st])) : st \in {Undefined} \cup Styles}

\* a complete gradient paint with a paint opacity and two stops
FadeStroke ==
  Obj([type |-> Str("GRADIENT_LINEAR"), opacity |-> Num(1, 2),
       gradientHandlePositions |-> Handles,
       gradientStops |-> Arr(<<Obj([position |-> Whole(0), color |-> Red]),
                               Obj([position |-> Whole(1), color |-> Red])>>)])

\* the attributes of the nodes of a tree: a good fill and a good gradient
\* stroke, an unknown paint after a good fill, an unknown stroke, a solid
\* fill without a color, and every guarded field wrongly typed, incomplete
\* or empty
NodeProtos ==
  {[id |-> Str("0:2"), name |-> Str("Rect"), type |-> Str("RECTANGLE"),
    fills |-> Arr(<<SolidRed>>), strokes |-> Arr(<<FadeStroke>>), strokeWeight |-> Whole(2)],
   [id |-> Str("0:3"), name |-> Str("Emoji"), type |-> Str("RECTANGLE"),
    fills |-> Arr(<<SolidRed, Obj([type |-> Str("EMOJI")])>>)],
   [id |-> Str("0:4"), name |-> Str("Video"), type |-> Str("VECTOR"),
    strokes |-> Arr(<<Obj([type |-> Str("VIDEO")])>>), strokeWeight |-> Whole(1)],
   [id |-> Str("0:5"), name |-> Str("NoColor"), type |-> Str("ELLIPSE"),
    fills |-> Arr(<<Obj([type |-> Str("SOLID")])>>)],
   [id |-> Str("0:6"), name |-> Str("Odd"), type |-> Str("GROUP"),
    characters |-> Str(""), fills |-> Mixed, strokes |-> Mixed, strokeWeight |-> Mixed,
    strokeDashes |-> Mixed, opacity |-> Mixed, cornerRadius |-> Mixed,
    individualStrokeWeights |-> Sides(Whole(1), Whole(2), Whole(3), Undefined)]}

\* the children field of a node without children: absent, or the empty list
\* on a group
LeafChildren(proto) == IF proto.type = Str("GROUP") THEN Arr(<<>>) ELSE Undefined

\* the ordered forests of k nodes
RECURSIVE Forests(_)
Forests(k) ==
  IF k = 0 THEN {<<>>}
  ELSE UNION {
         {<<Obj(WithOptional(proto, [children |-> IF kids = <<>> THEN LeafChildren(proto) ELSE Arr(kids)]))>> \o rest :
            proto \in NodeProtos, kids \in Forests(j - 1), rest \in Forests(k - j)} :
         j \in 1..k}

Header(thumb) ==
  WithOptional([name |-> Str("Design"), lastModified |-> Str("2024-01-01")], [thumbnailUrl |-> thumb])

Thumbs == {Undefined, Str("https://thumb")}

\* a GetFileResponse with the given top-level nodes
FileResponse(th, tops) ==
  Obj(WithOptional(Header(th),
                   [document |-> Obj([id |-> Str("0:0"), name |-> Str("Document"),
                                      type |-> Str("DOCUMENT"), children |-> Arr(tops)])]))

\* a GetFileNodesResponse with the given top-level nodes
NodesResponse(th, tops) ==
  Obj(WithOptional(Header(th),
                   [nodes |-> Arr([i \in 1..Len(tops) |-> Obj([document |-> tops[i]])])]))

(* --------------------------- convertColor calls ----------------------- *)

InitColor ==
  /\ input \in {[color |-> c, opacity |-> o] : c \in Colors, o \in OptOpacities}
  /\ output = Undefined
  /\ pc = "ready"

ConvertColorCall ==
  /\ pc = "ready"
  /\ output' = convertColor(input.color, input.opacity)
  /\ pc' = "done"
  /\ UNCHANGED input

NextColor == ConvertColorCall

SpecColor == InitColor /\ [][NextColor]_vars

(* ---------------------------- parsePaint calls ------------------------ *)

InitPaint ==
  /\ input \in RawPaints
  /\ output = Undefined
  /\ pc = "ready"

ParsePaintCall ==
  /\ pc = "ready"
  /\ output' = parsePaint(input)
  /\ pc' = "done"
  /\ UNCHANGED input

NextPaint == ParsePaintCall

SpecPaint == InitPaint /\ [][NextPaint]_vars

(* ----------------------------- parseNode calls ------------------------ *)

ParseNodeCall ==
  /\ pc = "ready"
  /\ output' = parseNode(input.node, input.parent)
  /\ pc' = "done"
  /\ UNCHANGED input

NextNode == ParseNodeCall

\* every guarded field absent, wrongly typed or well typed
InitNode ==
  /\ \E ch \in {Undefined, Str(""), Str("Hi")},
        st \in {Undefined, Obj([fontFamily |-> Str("Inter")])},
        fi \in {Undefined, Mixed, Arr(<<>>), Arr(<<SolidRed>>)},
        sk \in {Undefined, Mixed, Arr(<<>>), Arr(<<SolidRed>>)},
        sw \in {Undefined, Mixed, Whole(0), Whole(2)},
        sd \in {Undefined, Mixed, Arr(<<>>)},
        isw \in {Undefined, Sides(Whole(1), Whole(2), Whole(3), Undefined),
                 Sides(Whole(1), Whole(2), Whole(3), Whole(4))},
        op \in {Undefined, Mixed, Whole(0)},
        cr \in {Undefined, Mixed, Whole(8)},
        kids \in {Undefined, Arr(<<>>), Arr(<<HiText>>)} :
        input = [node |-> RawNode(ch, st, fi, sk, sw, sd, isw, op, cr, kids), parent |-> Undefined]
  /\ output = Undefined
  /\ pc = "ready"

SpecNode == InitNode /\ [][NextNode]_vars

InitStyle ==
  /\ input \in {[node |-> n, parent |-> Undefined] : n \in TextNodes}
  /\ output = Undefined
  /\ pc = "ready"

SpecStyle == InitStyle /\ [][NextNode]_vars

(* --------------------------- whole responses -------------------------- *)

Init ==
  /\ \E th \in Thumbs, k \in 1..MaxNodes :
        \E tops \in Forests(k) :
          input \in {FileResponse(th, tops), NodesResponse(th, tops)}
  /\ output = Undefined
  /\ pc = "ready"

ParseFileCall ==
  /\ pc = "ready"
  /\ hasValue("document", input)
  /\ output' = parseFigmaFileResponse(input)
  /\ pc' = "done"
  /\ UNCHANGED input

ParseNodesCall ==
  /\ pc = "ready"
  /\ hasValue("nodes", input)
  /\ output' = parseFigmaResponse(input)
  /\ pc' = "done"
  /\ UNCHANGED input

Next == ParseFileCall \/ ParseNodesCall

Spec == Init /\ [][Next]_vars

(* ------------------------------- properties --------------------------- *)

UpperHexDigits == <<"0", "1", "2", "3", "4", "5", "6", "7", "8", "9",
                    "A", "B", "C", "D", "E", "F">>

\* the integer nearest to scale * x, a tie going up, searched in 0..scale
Nearest(x, scale) ==
  CHOOSE k \in 0..scale :
    /\ 2 * k * x.d <= 2 * scale * x.n + x.d
    /\ 2 * scale * x.n + x.d < 2 * (k + 1) * x.d

\* the two-digit, zero-padded, uppercase hex of a byte
TwoHex(v) == <<UpperHexDigits[(v \div 16) + 1], UpperHexDigits[(v % 16) + 1]>>

\* C7: for channels in [0,1], the hex of convertColor is '#' and the
\* zero-padded uppercase two-digit hex of round(r*255), round(g*255) and
\* round(b*255), whatever the alpha channel and the opacity argument are
C7_HexIsPaddedUpperRGB ==
  (pc = "done" /\ "color" \in DOMAIN input) =>
    /\ output.ok
    /\ Prop(output.val, "hex") =
         Chars(<<"#">> \o TwoHex(Nearest(Prop(input.color, "r"), 255))
                      \o TwoHex(Nearest(Prop(input.color, "g"), 255))
                      \o TwoHex(Nearest(Prop(input.color, "b"), 255)))

\* a converted color with a one-digit channel (05), a tie (1/2 -> 80) and a
\* letter pair (BF), under a half alpha and a half opacity
C7_Witness ==
  /\ pc = "done"
  /\ "color" \in DOMAIN input
  /\ input.color = Color(Num(1, 51), Num(1, 2), Num(3, 4), Num(1, 2))
  /\ input.opacity = Num(1, 2)
  /\ Prop(output.val, "hex") = Chars(<<"#", "0", "5", "8", "0", "B", "F">>)

SolidParsed ==
  /\ pc = "done"
  /\ Prop(input, "type") = Str("SOLID")
  /\ Prop(input, "color").t = "object"

\* the paint's own opacity, 1 when the paint has none
OwnOpacity ==
  IF Prop(input, "opacity").t = "undefined" THEN Whole(1) ELSE Prop(input, "opacity")

\* C6: the opacity of a normalized solid fill is the paint's own opacity (1
\* when absent) times the color's alpha, rounded to hundredths; 1 * 1 gives
\* exactly 1, 0.5 * 0.5 gives 0.25, and the result stays in [0,1]
C6_SolidOpacityIsRoundedProduct ==
  SolidParsed =>
    LET a == Prop(Prop(input, "color"), "a")
        o == OwnOpacity
        res == Prop(output.val, "opacity")
    IN  /\ output.ok
        /\ res.t = "number"
        /\ res = Num(Nearest(Mul(o, a), 100), 100)
        /\ (a = Whole(1) /\ o = Whole(1)) => res = Whole(1)
        /\ (a = Num(1, 2) /\ o = Num(1, 2)) => res = Num(25, 100)
        /\ 0 <= res.n /\ res.n <= res.d

\* a solid paint without an opacity field and with alpha 3/4: opacity 0.75
C6_Witness ==
  /\ SolidParsed
  /\ Prop(input, "opacity") = Undefined
  /\ Prop(Prop(input, "color"), "a") = Num(3, 4)
  /\ output.ok
  /\ Prop(output.val, "opacity") = Num(75, 100)

GradientParsed ==
  /\ pc = "done"
  /\ Prop(input, "type").t = "string"
  /\ Prop(input, "type").s \in GradientTypes
  /\ Prop(input, "gradientStops").t = "array"

\* C8: a gradient paint keeps its tag and its handle positions; its stops
\* keep their number, order and positions, each color converted with opacity
\* 1; no hex, opacity or imageRef field is set
C8_GradientStopsPreserved ==
  GradientParsed =>
    LET rawStops == Prop(input, "gradientStops").a
        outStops == Prop(output.val, "gradientStops")
    IN  /\ output.ok
        /\ DOMAIN output.val.o = {"type", "gradientHandlePositions", "gradientStops"}
        /\ Prop(output.val, "type") = Prop(input, "type")
        /\ Prop(output.val, "gradientHandlePositions") = Prop(input, "gradientHandlePositions")
        /\ outStops.t = "array"
        /\ Len(outStops.a) = Len(rawStops)
        /\ \A i \in 1..Len(rawStops) :
             /\ Prop(outStops.a[i], "position") = Prop(rawStops[i], "position")
             /\ Return(Prop(outStops.a[i], "color")) =
                  convertColor(Prop(rawStops[i], "color"), Whole(1))

\* a gradient with a paint opacity of 1/2 and two different stops, the
\* second one half transparent
C8_Witness ==
  /\ GradientParsed
  /\ output.ok
  /\ Prop(input, "opacity") = Num(1, 2)
  /\ Len(Prop(input, "gradientStops").a) = 2
  /\ Prop(Prop(input, "gradientStops").a[1], "position") = Whole(0)
  /\ Prop(Prop(input, "gradientStops").a[2], "position") = Whole(1)
  /\ Prop(Prop(Prop(output.val, "gradientStops").a[1], "color"), "opacity") = Whole(1)
  /\ Prop(Prop(Prop(output.val, "gradientStops").a[2], "color"), "opacity") = Num(1, 2)

(* properties of a single parseNode call (SpecNode, SpecStyle) *)

NodeParsed == pc = "done" /\ "node" \in DOMAIN input /\ output.ok

Emits(k) == k \in DOMAIN output.val.o

Source(k) == Prop(input.node, k)

FourNumericSides(v) ==
  /\ v.t = "object"
  /\ {"top", "right", "bottom", "left"} \subseteq DOMAIN v.o
  /\ \A k \in {"top", "right", "bottom", "left"} : v.o[k].t = "number"

C4_StrokeWeightNeedsStrokes ==
  NodeParsed =>
    /\ Emits("strokeWeight") =>
         /\ Source("strokeWeight").t = "number"
         /\ Emits("strokes")
         /\ Len(output.val.o.strokes.a) >= 1
         /\ output.val.o.strokeWeight = Source("strokeWeight")
    /\ (Source("strokes").t # "array" \/ Source("strokes") = Arr(<<>>)) => ~Emits("strokeWeight")

\* the two sides of C4: a numeric strokeWeight dropped beside an empty
\* strokes list ...
C4_Witness ==
  /\ NodeParsed
  /\ Source("strokeWeight") = Whole(2)
  /\ Source("strokes") = Arr(<<>>)
  /\ Emits("strokes")
  /\ ~Emits("strokeWeight")

\* ... and the strokeWeight 0 kept beside one stroke
C4_WitnessKept ==
  /\ NodeParsed
  /\ Source("strokeWeight") = Whole(0)
  /\ Len(Source("strokes").a) = 1
  /\ Emits("strokeWeight")
  /\ output.val.o.strokeWeight = Whole(0)

StyleFields == {"fontFamily", "fontWeight", "fontSize", "lineHeight", "letterSpacing",
                "textCase", "textAlignHorizontal", "textAlignVertical"}

CopiedStyleFields == {"fontFamily", "fontWeight", "fontSize",
                      "textCase", "textAlignHorizontal", "textAlignVertical"}

AllUndefined(ts) == \A k \in StyleFields : Prop(ts, k).t = "undefined"

\* C9 as stated: no textStyle without a style record, and never a textStyle
\* all of whose fields are undefined
C9_NeverAllUndefined ==
  NodeParsed =>
    /\ Source("style").t = "undefined" => ~Emits("textStyle")
    /\ Emits("textStyle") => ~AllUndefined(output.val.o.textStyle)

\* C9 as amended: textStyle is emitted exactly when there is a style record,
\* and all its fields are undefined exactly when the record has none of
\* fontFamily, fontWeight, fontSize, textCase and the two alignments
C9_TextStyleIffStyle ==
  NodeParsed =>
    /\ Emits("textStyle") <=> Source("style").t # "undefined"
    /\ Emits("textStyle") =>
         (AllUndefined(output.val.o.textStyle)
            <=> \A k \in CopiedStyleFields : Prop(Source("style"), k).t = "undefined")

\* a style record with lineHeightPx and letterSpacing only: the textStyle is
\* emitted with every field undefined
C9_Witness ==
  /\ NodeParsed
  /\ Source("style") = Obj([lineHeightPx |-> Whole(24), letterSpacing |-> Whole(2)])
  /\ Emits("textStyle")
  /\ AllUndefined(output.val.o.textStyle)

Percent(cs) == Chars(cs \o <<"%">>)

Em(cs) == Chars(cs \o <<"e", "m">>)

\* C10: with a style record, letterSpacing is emitted exactly when the source
\* letterSpacing and fontSize are both present and non-zero, as
\* (letterSpacing / fontSize) * 100 and '%'; the six copied fields are emitted
\* unchanged; lineHeight is emitted only when lineHeightPx and fontSize are
\* both present, as lineHeightPx / fontSize and 'em'
C10_LetterSpacingAndLineHeight ==
  (NodeParsed /\ Source("style").t = "object") =>
    LET st == Source("style")
        ts == output.val.o.textStyle
        ls == Prop(st, "letterSpacing")
        fs == Prop(st, "fontSize")
        lh == Prop(st, "lineHeightPx")
    IN  /\ Prop(ts, "letterSpacing").t # "undefined"
             <=> (ls.t = "number" /\ ls.n # 0 /\ fs.t = "number" /\ fs.n # 0)
        /\ Prop(ts, "letterSpacing").t # "undefined"
             => Prop(ts, "letterSpacing") = Percent(NumToString(Num(100 * ls.n * fs.d, ls.d * fs.n)))
        /\ (ls = Whole(2) /\ fs = Whole(16))
             => Prop(ts, "letterSpacing") = Chars(<<"1", "2", ".", "5", "%">>)
        /\ (ls = Whole(-1) /\ fs = Whole(8))
             => Prop(ts, "letterSpacing") = Chars(<<"-", "1", "2", ".", "5", "%">>)
        /\ \A k \in CopiedStyleFields : Prop(ts, k) = Prop(st, k)
        /\ Prop(ts, "lineHeight").t # "undefined"
             => /\ lh.t = "number" /\ fs.t = "number"
                /\ Prop(ts, "lineHeight") = Em(NumToString(Num(lh.n * fs.d, lh.d * fs.n)))
        /\ (lh = Whole(24) /\ fs = Whole(16))
             => Prop(ts, "lineHeight") = Chars(<<"1", ".", "5", "e", "m">>)
        /\ (lh = Whole(12) /\ fs = Whole(16))
             => Prop(ts, "lineHeight") = Chars(<<"0", ".", "7", "5", "e", "m">>)

\* letterSpacing 0 beside fontFamily, fontSize 16 and lineHeightPx 24: no
\* letterSpacing, the family and the size kept, lineHeight 1.5em
C10_Witness ==
  /\ NodeParsed
  /\ Source("style") = Obj([fontFamily |-> Str("Inter"), fontSize |-> Whole(16),
                            lineHeightPx |-> Whole(24), letterSpacing |-> Whole(0)])
  /\ Prop(output.val.o.textStyle, "letterSpacing") = Undefined
  /\ Prop(output.val.o.textStyle, "fontFamily") = Str("Inter")
  /\ Prop(output.val.o.textStyle, "fontSize") = Whole(16)
  /\ Prop(output.val.o.textStyle, "lineHeight") = Chars(<<"1", ".", "5", "e", "m">>)

(* properties of a whole response (Spec) *)

\* the raw top-level nodes handed to parseNode
Tops ==
  IF hasValue("document", input)
  THEN Prop(Prop(input, "document"), "children").a
  ELSE [i \in 1..Len(Prop(input, "nodes").a) |-> Prop(Prop(input, "nodes").a[i], "document")]

ElemsOf(v) == IF v.t = "array" THEN {v.a[i] : i \in 1..Len(v.a)} ELSE {}

\* a raw node and all the nodes below it
RECURSIVE Subtree(_)
Subtree(n) == {n} \cup UNION {Subtree(c) : c \in ElemsOf(Prop(n, "children"))}

AllRawNodes == UNION {Subtree(Tops[i]) : i \in 1..Len(Tops)}

AllPaints == UNION {ElemsOf(Prop(n, "fills")) \cup ElemsOf(Prop(n, "strokes")) : n \in AllRawNodes}

RecognizedTypes == {"SOLID", "IMAGE"} \cup GradientTypes

Recognized(p) == Prop(p, "type").t = "string" /\ Prop(p, "type").s \in RecognizedTypes

\* a solid paint has a color, a gradient paint a list of stops with colors
Complete(p) ==
  /\ Prop(p, "type") = Str("SOLID") => Prop(p, "color").t = "object"
  /\ (Prop(p, "type").t = "string" /\ Prop(p, "type").s \in GradientTypes) =>
       /\ Prop(p, "gradientStops").t = "array"
       /\ \A st \in ElemsOf(Prop(p, "gradientStops")) : Prop(st, "color").t = "object"

\* C1: a paint with an unrecognized tag in the fills or strokes of any node
\* at any depth makes the whole call throw: no design and no partial node
\* list is returned; the error is parsePaint's own unless a colorless solid
\* paint threw first
C1_UnknownPaintFailsCall ==
  (pc = "done" /\ "node" \notin DOMAIN input /\ \E p \in AllPaints : ~Recognized(p)) =>
    /\ ~output.ok
    /\ DOMAIN output = {"ok", "err"}
    /\ (\A p \in AllPaints : Complete(p)) => output.err = "Error: Unknown paint type"

\* the i-th child of a raw or normalized node, undefined when there is none
Child(n, i) ==
  IF Prop(n, "children").t = "array" /\ i <= Len(Prop(n, "children").a)
  THEN Prop(n, "children").a[i]
  ELSE Undefined

\* an unknown stroke on a grandchild, under nodes whose paints are good
C1_Witness ==
  /\ pc = "done"
  /\ "node" \notin DOMAIN input
  /\ Len(Tops) = 1
  /\ Prop(Tops[1], "id") = Str("0:2")
  /\ Prop(Child(Tops[1], 1), "id") = Str("0:6")
  /\ Prop(Child(Child(Tops[1], 1), 1), "id") = Str("0:4")
  /\ output = Throw("Error: Unknown paint type")

\* C2 as stated: a call whose paints all carry a recognized tag returns
C2_OnlyUnknownPaintFails ==
  (pc = "done" /\ "node" \notin DOMAIN input /\ \A p \in AllPaints : Recognized(p)) => output.ok

\* the raw node and the normalized node at every position of a returned tree
RECURSIVE Pairs(_, _)
Pairs(raw, out) ==
  {<<raw, out>>} \cup
    (IF Prop(out, "children").t = "array"
     THEN UNION {Pairs(Prop(raw, "children").a[i], Prop(out, "children").a[i]) :
                   i \in 1..Len(Prop(out, "children").a)}
     ELSE {})

AllPairs == UNION {Pairs(Tops[i], Prop(output.val, "nodes").a[i]) : i \in 1..Len(Tops)}

\* an attribute whose source field is absent or wrongly typed is left out,
\* and so are the text of empty characters and the children of an absent or
\* empty child list
OmitsUnfit(raw, out) ==
  /\ (Prop(raw, "characters").t = "undefined" \/ Prop(raw, "characters") = Str(""))
       => Prop(out, "text") = Undefined
  /\ Prop(raw, "style").t = "undefined" => Prop(out, "textStyle") = Undefined
  /\ Prop(raw, "fills").t # "array" => Prop(out, "fills") = Undefined
  /\ Prop(raw, "strokes").t # "array" => Prop(out, "strokes") = Undefined
  /\ Prop(raw, "strokeWeight").t # "number" => Prop(out, "strokeWeight") = Undefined
  /\ Prop(raw, "strokeDashes").t # "array" => Prop(out, "strokeDashes") = Undefined
  /\ ~FourNumericSides(Prop(raw, "individualStrokeWeights"))
       => Prop(out, "individualStrokeWeights") = Undefined
  /\ Prop(raw, "opacity").t # "number" => Prop(out, "opacity") = Undefined
  /\ Prop(raw, "cornerRadius").t # "number" => Prop(out, "borderRadius") = Undefined
  /\ (Prop(raw, "children").t = "undefined" \/ Prop(raw, "children") = Arr(<<>>))
       => Prop(out, "children") = Undefined

\* C2 as amended: a call on a tree of nodes returns when every paint carries
\* a recognized tag, every solid paint a color and every gradient paint a
\* list of stops with colors; the absent and wrongly typed guarded fields of
\* its nodes, empty characters and empty child lists are then left out
C2_CompletePaintsReturn ==
  (pc = "done" /\ "node" \notin DOMAIN input
     /\ \A p \in AllPaints : Recognized(p) /\ Complete(p)) =>
    /\ output.ok
    /\ \A pr \in AllPairs : OmitsUnfit(pr[1], pr[2])

\* a returned tree with a wrongly typed node below a node with a good fill
C2_Witness ==
  /\ pc = "done"
  /\ "node" \notin DOMAIN input
  /\ output.ok
  /\ Len(Tops) = 1
  /\ Prop(Tops[1], "id") = Str("0:2")
  /\ Prop(Child(Tops[1], 1), "id") = Str("0:6")
  /\ Prop(Child(Tops[1], 1), "children") = Arr(<<>>)
  /\ DOMAIN Child(Prop(output.val, "nodes").a[1], 1).o = {"id", "name", "type", "layout"}

\* out is the image of raw under parent: same id, name and type, the layout
\* of (raw, parent), and the images of the children of raw, in order, under raw
RECURSIVE SameShape(_, _, _)
SameShape(raw, parent, out) ==
  /\ Prop(out, "id") = Prop(raw, "id")
  /\ Prop(out, "name") = Prop(raw, "name")
  /\ Prop(out, "type") = Prop(raw, "type")
  /\ Prop(out, "layout") = buildSimplifiedLayout(raw, parent)
  /\ IF Prop(raw, "children").t = "array" /\ Prop(raw, "children").a # <<>>
     THEN /\ Prop(out, "children").t = "array"
          /\ Len(Prop(out, "children").a) = Len(Prop(raw, "children").a)
          /\ \A i \in 1..Len(Prop(raw, "children").a) :
               SameShape(Prop(raw, "children").a[i], raw, Prop(out, "children").a[i])
     ELSE "children" \notin DOMAIN out.o

\* C5: a returned tree has the shape of the raw tree: id, name and type
\* copied, children of the same number and order (no children attribute for
\* an absent or empty list), the layout of every node computed from the node
\* and its direct raw parent, the top-level nodes without a parent
C5_SameShapeAndParents ==
  (pc = "done" /\ "node" \notin DOMAIN input /\ output.ok) =>
    /\ Prop(output.val, "nodes").t = "array"
    /\ Len(Prop(output.val, "nodes").a) = Len(Tops)
    /\ \A i \in 1..Len(Tops) : SameShape(Tops[i], Undefined, Prop(output.val, "nodes").a[i])

\* a chain of three nodes: the layout of the grandchild is computed within
\* the child, that of the top-level node without a parent; the empty child
\* list of the grandchild gives no children attribute
C5_Witness ==
  /\ pc = "done"
  /\ "node" \notin DOMAIN input
  /\ output.ok
  /\ Len(Tops) = 1
  /\ Prop(Tops[1], "id") = Str("0:6")
  /\ Prop(Child(Tops[1], 1), "id") = Str("0:2")
  /\ Prop(Child(Child(Tops[1], 1), 1), "id") = Str("0:6")
  /\ Prop(Child(Child(Tops[1], 1), 1), "children") = Arr(<<>>)
  /\ Prop(Child(Child(Prop(output.val, "nodes").a[1], 1), 1), "children") = Undefined
  /\ Prop(Prop(Prop(output.val, "nodes").a[1], "layout"), "within") = Undefined
  /\ Prop(Prop(Prop(Child(Child(Prop(output.val, "nodes").a[1], 1), 1), "layout"), "within"), "id")
       = Str("0:2")

====
